---- MODULE Spec2Model ----
(***************************************************************************)
(* Model of the lv2-worker crate (worker/src/lib.rs): the scheduling side  *)
(* (Schedule::schedule_work), the response channel                         *)
(* (ResponseHandler::respond) and the three host callbacks of              *)
(* WorkerDescriptor (extern_work, extern_work_response, extern_end_run),   *)
(* together with the host that queues the byte views and with drop         *)
(* accounting for every payload.                                           *)
(*                                                                         *)
(* A typed value is the sequence of its bytes.  Payload number t of a kind *)
(* is the value whose bytes are all t; byte 0 never occurs in a payload    *)
(* (foreign memory).  Dropping a value runs the destructor of the payload  *)
(* whose bytes it carries, whichever bitwise copy is dropped.              *)
(***************************************************************************)
EXTENDS Integers, Sequences, FiniteSets, TLC

VARIABLES
    lookup,      \* the Schedule feature the host offers and what its lookup gave
    sched_fn,    \* Schedule.internal.schedule_work is Some(..)
    override,    \* the plugin overrides work_response / end_run
    owner,       \* payload -> who owns it
    drops,       \* payload -> number of runs of its destructor
    workQ,       \* host queue of accepted work requests (byte copies)
    respQ,       \* host queue of accepted responses (byte copies)
    work,        \* the executor invocation in progress, if any
    reentrancy,  \* invocations of extern_work entered and not yet left
    inst,        \* the plugin instance behind the LV2_Handle
    cyc,         \* the host's current cycle and what the plugin observed in it
    last,        \* the call of the layer made by the latest step
    chan         \* respond calls made through the latest response handler

vars == <<lookup, sched_fn, override, owner, drops, workQ, respQ, work,
          reentrancy, inst, cyc, last, chan>>

---------------------------------------------------------------------------
(* Bounds *)

MaxPayloads == 3       \* payloads (work and response) created over a behaviour
MaxCycles == 2         \* cycles an overriding plugin counts in end_run
MaxStatus == 3         \* the host returns a status in 0..MaxStatus
WorkDataSize == 2      \* size_of::<P::WorkData>()
ResponseDataSize == 3  \* size_of::<P::ResponseData>()

---------------------------------------------------------------------------
(* lv2_sys::LV2_Worker_Status *)

LV2_WORKER_SUCCESS == 0
LV2_WORKER_ERR_UNKNOWN == 1
LV2_WORKER_ERR_NO_SPACE == 2

HostStatus == 0..MaxStatus

---------------------------------------------------------------------------
(* Payloads and their byte representation *)

WorkIds == 1..MaxPayloads
RespIds == 1..MaxPayloads
Payloads == ({"W"} \X WorkIds) \cup ({"R"} \X RespIds)

SizeOf(kind) == IF kind = "W" THEN WorkDataSize ELSE ResponseDataSize

Byte == 0..MaxPayloads

\* the in-memory representation of payload t of a kind
Repr(kind, t) == [k \in 1..SizeOf(kind) |-> t]

\* the payload a value of a kind is, 0 when its bytes are no payload
IdOf(kind, bytes) ==
    IF \E t \in (IF kind = "W" THEN WorkIds ELSE RespIds) : bytes = Repr(kind, t)
    THEN bytes[1]
    ELSE 0

\* the payloads created so far
Born == {p \in Payloads : owner[p] # "unborn"}

\* the next payload of a kind to create, 0 when MaxPayloads were created
Fresh(kind) ==
    LET ids == IF kind = "W" THEN WorkIds ELSE RespIds
        free == {t \in ids : owner[<<kind, t>>] = "unborn"}
    IN IF Cardinality(Born) >= MaxPayloads THEN 0
       ELSE CHOOSE t \in free : \A u \in free : t <= u

NoValue == <<>>
NoView == [size |-> 0, bytes |-> <<>>]

---------------------------------------------------------------------------
(* Moving a value in and out of a byte view *)

\* a plain local holding the value
Owned(value) == [inner |-> value, manual |-> FALSE]

\* fault: the local is a plain one, dropped at the end of its scope
ManuallyDrop_missing(value) == [inner |-> value, manual |-> FALSE]

\* ManuallyDrop::new: a local that holds the value and is never dropped when
\* it goes out of scope
ManuallyDrop_new(value) == [inner |-> value, manual |-> TRUE]

\* ManuallyDrop::into_inner: the value, moved out of the wrapper
into_inner(slot) == slot.inner

\* fault: a size one byte short of the value's
size_of_val_short(slot) == Len(slot.inner) - 1

\* mem::size_of_val of a local: ManuallyDrop<T> has the size of T
size_of_val(slot) == Len(slot.inner)

\* fault: a ManuallyDrop local is dropped at the end of its scope as well
ScopeExit_always(slot) == 1

\* destructor runs when a local that was not moved out goes out of scope
ScopeExit(slot) == IF slot.manual THEN 0 ELSE 1

\* ptr::read_unaligned of n bytes at the start of a buffer; a byte beyond the
\* buffer is whatever the memory holds there (oob)
read_unaligned(buffer, n, oob) ==
    [k \in 1..n |-> IF k <= Len(buffer) THEN buffer[k] ELSE oob]

\* lv2_core::feature::ThreadingClass
ThreadingClass == {"Audio", "Instantiation", "Other"}

\* fault: a null feature pointer is taken for a feature
from_feature_ptr_unchecked(feature, class) ==
    IF class = "Audio" THEN "Some" ELSE "panic"

\* Schedule::from_feature_ptr(feature, class) on a feature pointer that is
\* non-null (feature) or null: Some(Schedule), None, or a panic
from_feature_ptr(feature, class) ==
    IF class = "Audio"
    THEN IF feature THEN "Some" ELSE "None"
    ELSE "panic"

ScheduleErrors == {"Unknown", "NoSpace", "NoCallback"}

\* fault: every failure status reported as Unknown
ScheduleStatus_merged(status) ==
    IF status = LV2_WORKER_SUCCESS THEN "Ok" ELSE "Unknown"

\* fault: the wildcard arm of the match yields Ok
ScheduleStatus_other_ok(status) ==
    IF status = LV2_WORKER_SUCCESS THEN "Ok"
    ELSE IF status = LV2_WORKER_ERR_UNKNOWN THEN "Unknown"
    ELSE IF status = LV2_WORKER_ERR_NO_SPACE THEN "NoSpace"
    ELSE "Ok"

\* the match of schedule_work on the status the host function returned
ScheduleStatus(status) ==
    IF status = LV2_WORKER_SUCCESS THEN "Ok"
    ELSE IF status = LV2_WORKER_ERR_UNKNOWN THEN "Unknown"
    ELSE IF status = LV2_WORKER_ERR_NO_SPACE THEN "NoSpace"
    ELSE "Unknown"

\* the match of respond on the status the host function returned
RespondStatus(status) ==
    IF status = LV2_WORKER_SUCCESS THEN "Ok"
    ELSE IF status = LV2_WORKER_ERR_UNKNOWN THEN "Unknown"
    ELSE IF status = LV2_WORKER_ERR_NO_SPACE THEN "NoSpace"
    ELSE "Unknown"

\* fault: the error carries a bitwise copy of a plain local, which is dropped
\* when schedule_work returns
schedule_work_copying(fn, value, status) ==
    LET worker_data == Owned(value)
        view == [size |-> size_of_val(worker_data),
                 bytes |-> worker_data.inner]
    IN IF ~fn
       THEN [result |-> "NoCallback", payload |-> worker_data.inner,
             view |-> NoView, host_calls |-> 0,
             destructed |-> ScopeExit(worker_data)]
       ELSE [result |-> ScheduleStatus(status),
             payload |-> IF ScheduleStatus(status) = "Ok" THEN NoValue
                         ELSE worker_data.inner,
             view |-> view, host_calls |-> 1,
             destructed |-> IF ScheduleStatus(status) = "Ok" THEN 0
                            ELSE ScopeExit(worker_data)]

\* fault: the host function is called a second time when it refused
schedule_work_retrying(fn, value, status) ==
    LET worker_data == ManuallyDrop_new(value)
        view == [size |-> size_of_val(worker_data),
                 bytes |-> worker_data.inner]
    IN IF ~fn
       THEN [result |-> "NoCallback", payload |-> into_inner(worker_data),
             view |-> NoView, host_calls |-> 0, destructed |-> 0]
       ELSE IF ScheduleStatus(status) = "Ok"
       THEN [result |-> "Ok", payload |-> NoValue,
             view |-> view, host_calls |-> 1,
             destructed |-> ScopeExit(worker_data)]
       ELSE [result |-> ScheduleStatus(status),
             payload |-> into_inner(worker_data),
             view |-> view, host_calls |-> 2, destructed |-> 0]

\* Schedule::schedule_work(worker_data) with internal.schedule_work present
\* or not (fn) and the status the host function returns when it is called
schedule_work(fn, value, status) ==
    LET worker_data == ManuallyDrop_new(value)
        size == size_of_val(worker_data)
        ptr == worker_data.inner
        view == [size |-> size, bytes |-> ptr]
    IN IF ~fn
       THEN [result |-> "NoCallback", payload |-> into_inner(worker_data),
             view |-> NoView, host_calls |-> 0, destructed |-> 0]
       ELSE IF ScheduleStatus(status) = "Ok"
       THEN [result |-> "Ok", payload |-> NoValue,
             view |-> view, host_calls |-> 1,
             destructed |-> ScopeExit(worker_data)]
       ELSE [result |-> ScheduleStatus(status),
             payload |-> into_inner(worker_data),
             view |-> view, host_calls |-> 1, destructed |-> 0]

\* fault: the response is held in a plain local, dropped when respond returns
\* after the host was called
respond_unguarded(fn, value, status) ==
    LET response_data == Owned(value)
        view == [size |-> size_of_val(response_data),
                 bytes |-> response_data.inner]
    IN IF ~fn
       THEN [result |-> "NoCallback", payload |-> response_data.inner,
             view |-> NoView, host_calls |-> 0, destructed |-> 0]
       ELSE [result |-> RespondStatus(status),
             payload |-> IF RespondStatus(status) = "Ok" THEN NoValue
                         ELSE response_data.inner,
             view |-> view, host_calls |-> 1,
             destructed |-> ScopeExit(response_data)]

\* fault: a handler that answers once: after its first call it refuses
\* without calling the host
respond_one_shot(fn, value, status) ==
    LET response_data == ManuallyDrop_new(value)
        view == [size |-> size_of_val(response_data),
                 bytes |-> response_data.inner]
    IN IF ~fn
       THEN [result |-> "NoCallback", payload |-> into_inner(response_data),
             view |-> NoView, host_calls |-> 0, destructed |-> 0]
       ELSE IF chan.calls > 0
       THEN [result |-> "Unknown", payload |-> into_inner(response_data),
             view |-> NoView, host_calls |-> 0, destructed |-> 0]
       ELSE IF RespondStatus(status) = "Ok"
       THEN [result |-> "Ok", payload |-> NoValue,
             view |-> view, host_calls |-> 1,
             destructed |-> ScopeExit(response_data)]
       ELSE [result |-> RespondStatus(status),
             payload |-> into_inner(response_data),
             view |-> view, host_calls |-> 1, destructed |-> 0]

\* the variants of RespondError
RespondErrors == {"Unknown", "NoSpace", "NoCallback"}

\* fault: a missing response function is reported as Unknown
respond_absent_unknown(fn, value, status) ==
    LET response_data == ManuallyDrop_new(value)
        view == [size |-> size_of_val(response_data),
                 bytes |-> response_data.inner]
    IN IF ~fn
       THEN [result |-> "Unknown", payload |-> into_inner(response_data),
             view |-> NoView, host_calls |-> 0, destructed |-> 0]
       ELSE IF RespondStatus(status) = "Ok"
       THEN [result |-> "Ok", payload |-> NoValue,
             view |-> view, host_calls |-> 1,
             destructed |-> ScopeExit(response_data)]
       ELSE [result |-> RespondStatus(status),
             payload |-> into_inner(response_data),
             view |-> view, host_calls |-> 1, destructed |-> 0]

\* ResponseHandler::respond(response_data) with response_function present or
\* not (fn) and the status the host function returns when it is called
respond(fn, value, status) ==
    LET response_data == ManuallyDrop_new(value)
        size == size_of_val(response_data)
        ptr == response_data.inner
        view == [size |-> size, bytes |-> ptr]
    IN IF ~fn
       THEN [result |-> "NoCallback", payload |-> into_inner(response_data),
             view |-> NoView, host_calls |-> 0, destructed |-> 0]
       ELSE IF RespondStatus(status) = "Ok"
       THEN [result |-> "Ok", payload |-> NoValue,
             view |-> view, host_calls |-> 1,
             destructed |-> ScopeExit(response_data)]
       ELSE [result |-> RespondStatus(status),
             payload |-> into_inner(response_data),
             view |-> view, host_calls |-> 1, destructed |-> 0]

\* fault: the two error arms of the match swapped
StatusOf_swapped(res) ==
    IF res = "Ok" THEN LV2_WORKER_SUCCESS
    ELSE IF res = "Unknown" THEN LV2_WORKER_ERR_NO_SPACE
    ELSE LV2_WORKER_ERR_UNKNOWN

\* Result<(), WorkerError> of a hook, as the status given to the host
StatusOf(res) ==
    IF res = "Ok" THEN LV2_WORKER_SUCCESS
    ELSE IF res = "Unknown" THEN LV2_WORKER_ERR_UNKNOWN
    ELSE LV2_WORKER_ERR_NO_SPACE

HookResults == {"Ok", "Unknown", "NoSpace"}

\* fault: the value stays in its ManuallyDrop, so nothing ever drops it
extern_work_decode_wrapped(size, data, oob) ==
    LET worker_data == ManuallyDrop_new(
            read_unaligned(data, WorkDataSize, oob))
    IN [slot |-> worker_data, constructed |-> 1,
        accept |-> (size = size_of_val(worker_data))]

\* fault: the declared size is not compared with the size of the value
extern_work_decode_unchecked(size, data, oob) ==
    LET worker_data == Owned(into_inner(
            ManuallyDrop_new(read_unaligned(data, WorkDataSize, oob))))
    IN [slot |-> worker_data, constructed |-> 1, accept |-> TRUE]

\* the head of extern_work: the value is read from the buffer and unwrapped,
\* then the declared size is compared with its size
extern_work_decode(size, data, oob) ==
    LET worker_data == Owned(into_inner(
            ManuallyDrop_new(read_unaligned(data, WorkDataSize, oob))))
    IN [slot |-> worker_data, constructed |-> 1,
        accept |-> (size = size_of_val(worker_data))]

\* the head of extern_work_response behind a non-null handle
extern_work_response_decode(size, body, oob) ==
    LET response_data == Owned(into_inner(
            ManuallyDrop_new(read_unaligned(body, ResponseDataSize, oob))))
    IN [slot |-> response_data, constructed |-> 1,
        accept |-> (size = size_of_val(response_data))]

---------------------------------------------------------------------------
(* The host *)

\* the host's submit and respond functions copy size bytes from the pointer
\* into their queue when they accept a message
host_copy(id, view) ==
    [id |-> id, size |-> view.size,
     bytes |-> [k \in 1..view.size |->
                   IF k <= Len(view.bytes) THEN view.bytes[k] ELSE 0]]

\* the buffer the host passes with a declared size: its copy, cut or padded
\* when the host declares another size than the one it was given
host_buffer(msg, size) ==
    [k \in 1..size |-> IF k <= Len(msg.bytes) THEN msg.bytes[k] ELSE 0]

\* sizes a host declares for a message: the one it was given, or one off
DeclaredSizes(msg) == {n \in {msg.size - 1, msg.size, msg.size + 1} : n >= 0}

\* fault: a host that calls work() whenever it has a request
HostMayCallWork_any == TRUE

\* host contract: work() is never called while a call of it is in progress
HostMayCallWork == reentrancy = 0

\* host contract: end_run is called once per cycle, after the cycle's requests
\* were worked on and every response was delivered
HostMayEndRun ==
    /\ cyc.barrier = 0
    /\ workQ = <<>>
    /\ respQ = <<>>
    /\ work.state = "idle"

RemoveAt(q, i) == [k \in 1..(Len(q) - 1) |-> IF k < i THEN q[k] ELSE q[k + 1]]

---------------------------------------------------------------------------
(* State *)

NoCall ==
    [op |-> "none", kind |-> "none", arg |-> 0, fn |-> FALSE,
     null |-> FALSE, size |-> 0, msg_size |-> 0, status_in |-> 0, result |-> "none", status |-> 0,
     payload |-> NoValue, view |-> NoView, host_calls |-> 0,
     constructed |-> 0, destructed |-> 0, hook |-> FALSE, value |-> NoValue,
     hook_res |-> "none"]

Idle ==
    [state |-> "idle", data |-> Owned(NoValue), response_function |-> FALSE]

\* a response handler nothing was sent through
NoResponds == [calls |-> 0, refused |-> 0]

Init ==
    /\ lookup \in [feature : BOOLEAN, class : {"none"}, result : {"pending"}]
    /\ sched_fn \in BOOLEAN
    /\ ~lookup.feature => ~sched_fn
    /\ override \in BOOLEAN
    /\ owner = [p \in Payloads |-> "unborn"]
    /\ drops = [p \in Payloads |-> 0]
    /\ workQ = <<>>
    /\ respQ = <<>>
    /\ work = Idle
    /\ reentrancy = 0
    /\ inst = [responses |-> 0, end_cycle |-> 0]
    /\ cyc = [trace |-> <<>>, barrier |-> 0, faults |-> 0, accepted |-> {}]
    /\ last = NoCall
    /\ chan = NoResponds

\* a failed transfer gave a payload of the kind back and its sender has not
\* dropped it yet: the sender's next step is that drop
Returned(kind) ==
    \E t \in (IF kind = "W" THEN WorkIds ELSE RespIds) :
        owner[<<kind, t>>] = "sender"

\* the drop of a value of a kind, n times
DropsAfter(kind, value, n) ==
    IF IdOf(kind, value) = 0 THEN drops
    ELSE [drops EXCEPT ![<<kind, IdOf(kind, value)>>] = @ + n]

---------------------------------------------------------------------------
(* The real-time side: run() *)

\* the plugin's feature collection of a threading class is built from the
\* features of the host: the lookup of the Schedule feature
FromFeaturePtr(class) ==
    /\ lookup.result = "pending"
    /\ lookup' = [lookup EXCEPT !.class = class,
                      !.result = from_feature_ptr(lookup.feature, class)]
    /\ last' = [NoCall EXCEPT !.op = "from_feature_ptr",
                   !.fn = lookup.feature,
                   !.result = from_feature_ptr(lookup.feature, class)]
    /\ UNCHANGED <<sched_fn, override, owner, drops, workQ, respQ, work,
                   reentrancy, inst, cyc, chan>>

\* the plugin was instantiated: the lookup neither is pending nor panicked
Instantiated == lookup.result \in {"Some", "None"}

\* run() creates work payload t and calls schedule_work on it; the host
\* function, when there is one, returns status
Schedule(t, status) ==
    /\ lookup.result = "Some"
    /\ cyc.barrier = 0
    /\ ~Returned("W")
    /\ t = Fresh("W")
    /\ sched_fn \/ status = 0
    /\ LET v == Repr("W", t)
           r == schedule_work(sched_fn, v, status)
           accepted == r.host_calls = 1 /\ status = LV2_WORKER_SUCCESS
       IN /\ workQ' = IF accepted THEN Append(workQ, host_copy(t, r.view))
                      ELSE workQ
          /\ owner' = [owner EXCEPT ![<<"W", t>>] =
                          IF r.result = "Ok" THEN "host" ELSE "sender"]
          /\ drops' = DropsAfter("W", v, r.destructed)
          /\ last' = [NoCall EXCEPT !.op = "schedule", !.kind = "W", !.arg = t,
                         !.fn = sched_fn, !.status_in = status,
                         !.result = r.result, !.payload = r.payload,
                         !.view = r.view, !.host_calls = r.host_calls,
                         !.destructed = r.destructed]
    /\ UNCHANGED <<lookup, chan, sched_fn, override, respQ, work,
                   reentrancy, inst, cyc>>

\* the owner of a payload that a failed transfer gave back drops it
DropReturned(kind, t) ==
    /\ owner[<<kind, t>>] = "sender"
    /\ kind = "R" => work.state = "executing"
    /\ owner' = [owner EXCEPT ![<<kind, t>>] = "dropped"]
    /\ drops' = DropsAfter(kind, Repr(kind, t), 1)
    /\ last' = [NoCall EXCEPT !.op = "drop", !.kind = kind, !.arg = t]
    /\ UNCHANGED <<lookup, chan, sched_fn, override, workQ, respQ, work,
                   reentrancy, inst, cyc>>

---------------------------------------------------------------------------
(* The worker side: extern_work, P::work and the response channel *)

\* what becomes of the payload behind a delivered message when the callback
\* made value of its bytes and that value ends as fate
FateOf(kind, msg, value, fate) ==
    IF IdOf(kind, value) = msg.id THEN fate ELSE "leaked"

\* owner after a callback made value of msg: msg's payload meets its fate, and
\* when the value is another payload that payload meets it too
OwnerAfter(kind, msg, value, fate) ==
    [p \in Payloads |->
        IF p = <<kind, msg.id>> THEN FateOf(kind, msg, value, fate)
        ELSE IF p = <<kind, IdOf(kind, value)>> /\ fate = "dropped"
             THEN "dropped"
        ELSE owner[p]]

\* the host calls extern_work with the head of its queue, a declared size and
\* a response function; on a size equal to the size of WorkData the call
\* enters P::work, otherwise it returns at once
ExternWork(size, fn, oob) ==
    /\ HostMayCallWork
    /\ workQ # <<>>
    /\ size < WorkDataSize \/ oob = 0
    /\ LET msg == Head(workQ)
           d == extern_work_decode(size, host_buffer(msg, size), oob)
           value == d.slot.inner
       IN /\ size \in DeclaredSizes(msg)
          /\ workQ' = Tail(workQ)
          /\ cyc' = [cyc EXCEPT !.faults =
                        IF size # msg.size THEN 1 ELSE @]
          /\ IF d.accept
             THEN /\ work' = [state |-> "executing", data |-> d.slot,
                              response_function |-> fn]
                  /\ chan' = NoResponds
                  /\ reentrancy' = reentrancy + 1
                  /\ owner' = OwnerAfter("W", msg, value, "receiver")
                  /\ UNCHANGED drops
                  /\ last' = [NoCall EXCEPT !.op = "work_enter",
                                 !.kind = "W", !.arg = msg.id, !.fn = fn,
                                 !.size = size, !.msg_size = msg.size,
                                 !.constructed = d.constructed,
                                 !.hook = TRUE, !.value = value]
             ELSE /\ UNCHANGED <<work, reentrancy, chan>>
                  /\ owner' = OwnerAfter("W", msg, value, "dropped")
                  /\ drops' = DropsAfter("W", value, ScopeExit(d.slot))
                  /\ last' = [NoCall EXCEPT !.op = "work",
                                 !.kind = "W", !.arg = msg.id, !.fn = fn,
                                 !.size = size, !.msg_size = msg.size,
                                 !.status = LV2_WORKER_ERR_UNKNOWN,
                                 !.constructed = d.constructed,
                                 !.destructed = ScopeExit(d.slot),
                                 !.value = value]
    /\ UNCHANGED <<lookup, sched_fn, override, respQ, inst>>

\* fault: the response handler outlives the invocation it was built for
ChannelLive_escaped == TRUE

\* the ResponseHandler is a local of extern_work lent to P::work: it can be
\* used from its construction until P::work returns
ChannelLive == work.state = "executing"

\* inside P::work: respond() on a new response value; the host returns status
Respond(t, status) ==
    /\ ChannelLive
    /\ ~Returned("R")
    /\ t = Fresh("R")
    /\ work.response_function \/ status = 0
    /\ LET v == Repr("R", t)
           r == respond(work.response_function, v, status)
           accepted == r.host_calls = 1 /\ status = LV2_WORKER_SUCCESS
       IN /\ respQ' = IF accepted THEN Append(respQ, host_copy(t, r.view))
                      ELSE respQ
          /\ cyc' = [cyc EXCEPT !.accepted =
                        IF accepted THEN @ \cup {t} ELSE @]
          /\ owner' = [owner EXCEPT ![<<"R", t>>] =
                          IF r.result = "Ok" THEN "host" ELSE "sender"]
          /\ drops' = DropsAfter("R", v, r.destructed)
          /\ chan' = [calls |-> chan.calls + 1,
                       refused |-> chan.refused
                                      + (IF r.result = "Ok" THEN 0 ELSE 1)]
          /\ last' = [NoCall EXCEPT !.op = "respond", !.kind = "R",
                         !.arg = t, !.fn = work.response_function,
                         !.status_in = status,
                         !.result = r.result, !.payload = r.payload,
                         !.view = r.view, !.host_calls = r.host_calls,
                         !.destructed = r.destructed]
    /\ UNCHANGED <<lookup, sched_fn, override, workQ, work, reentrancy,
                   inst>>

\* fault: P::work is given the plugin instance and counts on it
WorkReturn_on_instance(res) ==
    /\ work.state = "executing"
    /\ ~Returned("R")
    /\ LET value == work.data.inner
           t == IdOf("W", value)
           n == ScopeExit(work.data)
       IN /\ drops' = DropsAfter("W", value, n)
          /\ owner' = IF t = 0 THEN owner
                      ELSE [owner EXCEPT ![<<"W", t>>] =
                               IF n > 0 THEN "dropped" ELSE "leaked"]
          /\ last' = [NoCall EXCEPT !.op = "work", !.kind = "W", !.arg = t,
                         !.fn = work.response_function,
                         !.size = WorkDataSize, !.msg_size = WorkDataSize,
                         !.status = StatusOf(res), !.hook = TRUE,
                         !.hook_res = res, !.value = value,
                         !.constructed = 1]
    /\ work' = Idle
    /\ reentrancy' = reentrancy - 1
    /\ inst' = [inst EXCEPT !.responses = @ + 1]
    /\ UNCHANGED <<lookup, chan, sched_fn, override, workQ, respQ, cyc>>

\* P::work returns res: its parameter, the work data it received by move, goes
\* out of scope, and extern_work maps the result to the status it returns
WorkReturn(res) ==
    /\ work.state = "executing"
    /\ ~Returned("R")
    /\ LET value == work.data.inner
           t == IdOf("W", value)
           n == ScopeExit(work.data)
       IN /\ drops' = DropsAfter("W", value, n)
          /\ owner' = IF t = 0 THEN owner
                      ELSE [owner EXCEPT ![<<"W", t>>] =
                               IF n > 0 THEN "dropped" ELSE "leaked"]
          /\ last' = [NoCall EXCEPT !.op = "work", !.kind = "W", !.arg = t,
                         !.fn = work.response_function,
                         !.size = WorkDataSize, !.msg_size = WorkDataSize,
                         !.status = StatusOf(res), !.hook = TRUE,
                         !.hook_res = res, !.value = value,
                         !.constructed = 1]
    /\ work' = Idle
    /\ reentrancy' = reentrancy - 1
    /\ UNCHANGED <<lookup, chan, sched_fn, override, workQ, respQ,
                   inst, cyc>>

---------------------------------------------------------------------------
(* The real-time side: extern_work_response and extern_end_run *)

\* fault: the default body reports an error for a response nobody handles
work_response_default_unknown(plugin, res) ==
    IF override
    THEN [plugin |-> [plugin EXCEPT !.responses = @ + 1], result |-> res]
    ELSE [plugin |-> plugin, result |-> "Unknown"]

\* Worker::work_response: the default returns Ok and leaves the plugin alone;
\* an overriding plugin counts the response and returns what it likes
work_response(plugin, res) ==
    IF override
    THEN [plugin |-> [plugin EXCEPT !.responses = @ + 1], result |-> res]
    ELSE [plugin |-> plugin, result |-> "Ok"]

\* Worker::end_run: the default returns Ok and leaves the plugin alone; an
\* overriding plugin counts the cycle and returns what it likes
end_run(plugin, res) ==
    IF override
    THEN [plugin |-> [plugin EXCEPT !.end_cycle = @ + 1], result |-> res]
    ELSE [plugin |-> plugin, result |-> "Ok"]

\* fault: the null check of the handle inverted
extern_end_run_inverted(null, plugin, res) ==
    IF null
    THEN LET h == end_run(plugin, res)
         IN [hook |-> TRUE, plugin |-> h.plugin, hook_res |-> h.result,
             status |-> StatusOf(h.result)]
    ELSE [hook |-> FALSE, plugin |-> plugin, hook_res |-> "none",
          status |-> LV2_WORKER_ERR_UNKNOWN]

\* fault: the hook is called without a look at the handle
extern_end_run_unchecked(null, plugin, res) ==
    LET h == end_run(plugin, res)
    IN [hook |-> TRUE, plugin |-> h.plugin, hook_res |-> h.result,
        status |-> StatusOf(h.result)]

\* extern_end_run on a null or non-null handle
extern_end_run(null, plugin, res) ==
    IF ~null
    THEN LET h == end_run(plugin, res)
         IN [hook |-> TRUE, plugin |-> h.plugin, hook_res |-> h.result,
             status |-> StatusOf(h.result)]
    ELSE [hook |-> FALSE, plugin |-> plugin, hook_res |-> "none",
          status |-> LV2_WORKER_ERR_UNKNOWN]

\* the host calls extern_work_response with message i of its queue, a handle
\* that is null or not and a declared size; on a size equal to the size of
\* ResponseData the value is moved into the work_response hook, where it goes
\* out of scope
ExternWorkResponse(i, null, size, oob, res) ==
    /\ i \in 1..Len(respQ)
    /\ ~Returned("W")
    /\ res = "Ok" \/ (override /\ ~null /\ size = ResponseDataSize)
    /\ (~null /\ size < ResponseDataSize) \/ oob = 0
    /\ LET msg == respQ[i]
           d == extern_work_response_decode(size, host_buffer(msg, size), oob)
           value == d.slot.inner
           h == work_response(inst, res)
           call == [NoCall EXCEPT !.op = "work_response", !.kind = "R",
                       !.arg = msg.id, !.null = null, !.size = size,
                       !.msg_size = msg.size]
       IN /\ size \in DeclaredSizes(msg)
          /\ respQ' = RemoveAt(respQ, i)
          /\ IF null
             THEN /\ owner' = [owner EXCEPT ![<<"R", msg.id>>] = "leaked"]
                  /\ UNCHANGED <<drops, inst>>
                  /\ cyc' = [cyc EXCEPT !.faults = 1]
                  /\ last' = [call EXCEPT
                                 !.status = LV2_WORKER_ERR_UNKNOWN]
             ELSE IF ~d.accept
             THEN /\ owner' = OwnerAfter("R", msg, value, "dropped")
                  /\ drops' = DropsAfter("R", value, ScopeExit(d.slot))
                  /\ UNCHANGED inst
                  /\ cyc' = [cyc EXCEPT !.faults =
                                IF size # msg.size THEN 1 ELSE @]
                  /\ last' = [call EXCEPT
                                 !.status = LV2_WORKER_ERR_UNKNOWN,
                                 !.constructed = d.constructed,
                                 !.destructed = ScopeExit(d.slot),
                                 !.value = value]
             ELSE /\ owner' = OwnerAfter("R", msg, value,
                                 IF ScopeExit(d.slot) > 0 THEN "dropped"
                                 ELSE "leaked")
                  /\ drops' = DropsAfter("R", value, ScopeExit(d.slot))
                  /\ inst' = h.plugin
                  /\ cyc' = [cyc EXCEPT
                                !.trace = Append(@,
                                    [ev |-> "resp",
                                     id |-> IdOf("R", value)]),
                                !.faults = IF size # msg.size THEN 1 ELSE @]
                  /\ last' = [call EXCEPT
                                 !.status = StatusOf(h.result),
                                 !.constructed = d.constructed,
                                 !.hook = TRUE, !.hook_res = h.result,
                                 !.value = value]
    /\ UNCHANGED <<lookup, chan, sched_fn, override, workQ, work,
                   reentrancy>>

\* the host calls extern_end_run with a handle that is null or not
ExternEndRun(null, res) ==
    /\ Instantiated
    /\ HostMayEndRun
    /\ ~Returned("W")
    /\ (override /\ ~null) => inst.end_cycle < MaxCycles
    /\ res = "Ok" \/ (override /\ ~null)
    /\ LET e == extern_end_run(null, inst, res)
       IN /\ inst' = e.plugin
          /\ cyc' = [cyc EXCEPT
                        !.barrier = @ + 1,
                        !.trace = IF e.hook
                                  THEN Append(@, [ev |-> "end", id |-> 0])
                                  ELSE @,
                        !.faults = IF null THEN 1 ELSE @]
          /\ last' = [NoCall EXCEPT !.op = "end_run", !.null = null,
                         !.status = e.status, !.hook = e.hook,
                         !.hook_res = e.hook_res]
    /\ UNCHANGED <<lookup, chan, sched_fn, override, owner, drops, workQ,
                   respQ, work, reentrancy>>

\* the host begins its next cycle
NextCycle ==
    /\ cyc.barrier > 0
    /\ cyc' = [trace |-> <<>>, barrier |-> 0, faults |-> 0, accepted |-> {}]
    /\ last' = [NoCall EXCEPT !.op = "cycle"]
    /\ UNCHANGED <<lookup, chan, sched_fn, override, owner, drops, workQ,
                   respQ, work, reentrancy, inst>>

---------------------------------------------------------------------------

MaxSize == (IF WorkDataSize > ResponseDataSize
            THEN WorkDataSize ELSE ResponseDataSize) + 1

Next ==
    \/ \E class \in ThreadingClass : FromFeaturePtr(class)
    \/ \E t \in WorkIds, status \in HostStatus : Schedule(t, status)
    \/ \E p \in Payloads : DropReturned(p[1], p[2])
    \/ \E size \in 0..MaxSize, fn \in BOOLEAN, oob \in Byte :
          ExternWork(size, fn, oob)
    \/ \E t \in RespIds, status \in HostStatus : Respond(t, status)
    \/ \E res \in HookResults : WorkReturn(res)
    \/ \E i \in RespIds, null \in BOOLEAN, size \in 0..MaxSize,
          oob \in Byte, res \in HookResults :
          ExternWorkResponse(i, null, size, oob, res)
    \/ \E null \in BOOLEAN, res \in HookResults : ExternEndRun(null, res)
    \/ NextCycle

Spec == Init /\ [][Next]_vars

---------------------------------------------------------------------------
(* Properties *)

WorkOf(t) == <<"W", t>>
RespOf(t) == <<"R", t>>
HostHolds(q, t) == \E k \in 1..Len(q) : q[k].id = t

\* C1: schedule_work(v) returns Ok when the host function returns Success,
\* Unknown(v) on ErrorUnknown, NoSpace(v) on ErrorNoSpace and NoCallback(v)
\* when the host supplied no function; in the failing cases the error carries
\* v, the caller owns v and the host holds nothing of it.
C1_FailureClassification ==
    last.op = "schedule" =>
        LET v == Repr("W", last.arg)
        IN /\ (last.fn /\ last.status_in = LV2_WORKER_SUCCESS)
                  => last.result = "Ok"
           /\ (last.fn /\ last.status_in = LV2_WORKER_ERR_UNKNOWN)
                  => (last.result = "Unknown" /\ last.payload = v)
           /\ (last.fn /\ last.status_in = LV2_WORKER_ERR_NO_SPACE)
                  => (last.result = "NoSpace" /\ last.payload = v)
           /\ ~last.fn => (last.result = "NoCallback" /\ last.payload = v)
           /\ last.result \in ScheduleErrors
                  => /\ owner[WorkOf(last.arg)] = "sender"
                     /\ ~HostHolds(workQ, last.arg)

C1_Witness ==
    /\ last.op = "schedule"
    /\ last.result = "NoSpace"
    /\ \E t \in WorkIds : owner[WorkOf(t)] = "host"

\* C2: when schedule_work(v) returns an error, the payload in the error is
\* v's representation, schedule_work ran v's destructor zero times, and the
\* destructor has run exactly once when the caller has dropped the payload.
C2_ErrorReturnsPayload ==
    /\ (last.op = "schedule" /\ last.result \in ScheduleErrors)
           => /\ last.payload = Repr("W", last.arg)
              /\ last.destructed = 0
              /\ drops[WorkOf(last.arg)] = 0
    /\ \A t \in WorkIds : owner[WorkOf(t)] = "sender" => drops[WorkOf(t)] = 0
    /\ (last.op = "drop" /\ last.kind = "W") => drops[WorkOf(last.arg)] = 1

C2_Witness ==
    /\ last.op = "drop"
    /\ last.kind = "W"
    /\ owner[WorkOf(last.arg)] = "dropped"

\* C3: when schedule_work(v) succeeds, v's destructor has not run when the
\* call returns, neither inside the call nor at its end, and the host owns v.
C3_SuccessDoesNotDrop ==
    (last.op = "schedule" /\ last.result = "Ok")
        => /\ last.destructed = 0
           /\ drops[WorkOf(last.arg)] = 0
           /\ owner[WorkOf(last.arg)] = "host"
           /\ HostHolds(workQ, last.arg)

C3_Witness ==
    /\ last.op = "schedule"
    /\ last.result = "Ok"
    /\ last.status_in = LV2_WORKER_SUCCESS

\* C4: respond(r) runs r's destructor zero times whatever the host returns; on
\* Success the host owns r and the worker never destructs it; on a failure r
\* comes back unchanged in the error and the worker's drop of it is the one
\* run of its destructor.
C4_RespondOwnership ==
    /\ last.op = "respond"
           => /\ last.destructed = 0
              /\ drops[RespOf(last.arg)] = 0
              /\ last.result = "Ok"
                     => /\ owner[RespOf(last.arg)] = "host"
                        /\ HostHolds(respQ, last.arg)
              /\ last.result # "Ok"
                     => /\ last.payload = Repr("R", last.arg)
                        /\ owner[RespOf(last.arg)] = "sender"
                        /\ ~HostHolds(respQ, last.arg)
    /\ \A t \in RespIds :
           owner[RespOf(t)] \in {"host", "sender"} => drops[RespOf(t)] = 0
    /\ (last.op = "drop" /\ last.kind = "R") => drops[RespOf(last.arg)] = 1

C4_Witness ==
    /\ last.op = "drop"
    /\ last.kind = "R"
    /\ \E t \in RespIds : owner[RespOf(t)] = "host"

\* C5: a call of extern_work with a declared size other than the size of
\* WorkData returns ErrorUnknown and makes no WorkData value of the bytes and
\* runs no destructor.
C5_SizeMismatchTouchesNothing ==
    (last.op = "work" /\ last.size # WorkDataSize)
        => /\ last.status = LV2_WORKER_ERR_UNKNOWN
           /\ ~last.hook
           /\ last.constructed = 0
           /\ last.destructed = 0

\* C6: a call of extern_work_response with a non-null handle and a declared
\* size other than the size of ResponseData returns ErrorUnknown, does not
\* invoke the work_response hook, makes no ResponseData value of the bytes
\* and runs no destructor.
C6_ResponseSizeMismatchTouchesNothing ==
    (last.op = "work_response" /\ ~last.null
         /\ last.size # ResponseDataSize)
        => /\ last.status = LV2_WORKER_ERR_UNKNOWN
           /\ ~last.hook
           /\ last.constructed = 0
           /\ last.destructed = 0

\* C7: on a delivery whose declared size is the representation size,
\* extern_work and extern_work_response rebuild the payload and move it into
\* the hook, and the payload's destructor has run exactly once when the
\* callback returns: the hook's parameter is dropped, the layer drops nothing.
C7_DeliveryDropsOnce ==
    /\ last.op = "work_enter"
           => /\ last.hook
              /\ last.size = WorkDataSize
              /\ last.value = Repr("W", last.arg)
              /\ work.data.inner = last.value
              /\ owner[WorkOf(last.arg)] = "receiver"
              /\ drops[WorkOf(last.arg)] = 0
    /\ (last.op = "work" /\ last.hook)
           => /\ last.arg \in WorkIds
              /\ last.destructed = 0
              /\ drops[WorkOf(last.arg)] = 1
              /\ owner[WorkOf(last.arg)] = "dropped"
    /\ (last.op = "work_response" /\ last.hook)
           => /\ last.size = ResponseDataSize
              /\ last.value = Repr("R", last.arg)
              /\ last.destructed = 0
              /\ drops[RespOf(last.arg)] = 1
              /\ owner[RespOf(last.arg)] = "dropped"

C7_Witness ==
    /\ last.op = "work_response"
    /\ last.hook
    /\ \E t \in WorkIds : drops[WorkOf(t)] = 1 /\ owner[WorkOf(t)] = "dropped"

Ends == {k \in 1..Len(cyc.trace) : cyc.trace[k].ev = "end"}

DeliveredBefore(r, n) ==
    \E k \in 1..(n - 1) : cyc.trace[k] = [ev |-> "resp", id |-> r]

C10_RoundTrip ==
    /\ (last.op = "schedule" /\ last.host_calls = 1)
           => last.view = [size |-> WorkDataSize,
                           bytes |-> Repr("W", last.arg)]
    /\ (last.op = "respond" /\ last.host_calls = 1)
           => last.view = [size |-> ResponseDataSize,
                           bytes |-> Repr("R", last.arg)]
    /\ \A k \in 1..Len(workQ) :
           /\ workQ[k].size = WorkDataSize
           /\ workQ[k].bytes = Repr("W", workQ[k].id)
    /\ \A k \in 1..Len(respQ) :
           /\ respQ[k].size = ResponseDataSize
           /\ respQ[k].bytes = Repr("R", respQ[k].id)
    /\ (last.op \in {"work_enter", "work", "work_response"}
            /\ ~last.null /\ last.size = last.msg_size)
           => /\ last.hook
              /\ last.value = Repr(last.kind, last.arg)

C10_Witness ==
    /\ last.op = "work_response"
    /\ last.size = last.msg_size
    /\ last.hook
    /\ last.value = Repr("R", 2)

\* C11: whenever extern_work, extern_work_response or extern_end_run invoked
\* the hook, the status given to the host is Success for Ok, ErrorUnknown for
\* WorkerError::Unknown and ErrorNoSpace for WorkerError::NoSpace; a callback
\* never returns another status, with or without the hook.
C11_StatusMapping ==
    last.op \in {"work", "work_response", "end_run"}
        => /\ last.status \in {LV2_WORKER_SUCCESS, LV2_WORKER_ERR_UNKNOWN,
                               LV2_WORKER_ERR_NO_SPACE}
           /\ last.hook
                  => /\ last.hook_res \in HookResults
                     /\ last.hook_res = "Ok"
                            => last.status = LV2_WORKER_SUCCESS
                     /\ last.hook_res = "Unknown"
                            => last.status = LV2_WORKER_ERR_UNKNOWN
                     /\ last.hook_res = "NoSpace"
                            => last.status = LV2_WORKER_ERR_NO_SPACE
           /\ ~last.hook => last.status = LV2_WORKER_ERR_UNKNOWN

C11_Witness ==
    /\ last.op = "end_run"
    /\ last.hook
    /\ last.hook_res = "NoSpace"
    /\ last.status = LV2_WORKER_ERR_NO_SPACE
    /\ inst.responses > 0

\* C12: one call of schedule_work calls the host's submit function exactly
\* once when the function is present, whatever status it returns, and not at
\* all when it is absent, where the result is NoCallback; one call of respond
\* calls the host's response function at most once; the host holds at most
\* one copy of a payload.
C12_NoImplicitRetry ==
    /\ last.op = "schedule"
           => /\ last.fn => last.host_calls = 1
              /\ ~last.fn => (last.host_calls = 0
                                 /\ last.result = "NoCallback"
                                 /\ last.view = NoView)
    /\ last.op = "respond"
           => /\ last.host_calls <= 1
              /\ last.fn => last.host_calls = 1
              /\ ~last.fn => last.host_calls = 0
    /\ \A t \in WorkIds :
           Cardinality({k \in 1..Len(workQ) : workQ[k].id = t}) <= 1
    /\ \A t \in RespIds :
           Cardinality({k \in 1..Len(respQ) : respQ[k].id = t}) <= 1

C12_Witness ==
    /\ last.op = "schedule"
    /\ last.fn
    /\ last.status_in = LV2_WORKER_ERR_NO_SPACE
    /\ last.host_calls = 1
    /\ Len(workQ) = 1

\* C13 as stated: the errors of respond are Unknown and NoSpace, and no call
\* of respond yields NoCallback.
C13_RespondNeverNoCallback ==
    last.op = "respond" => last.result \in {"Ok", "Unknown", "NoSpace"}

\* C13 amended: the errors of respond are Unknown, NoSpace and NoCallback;
\* respond yields NoCallback exactly when its channel holds no host response
\* function, without calling the host, and the error carries the response
\* back to the worker.
C13_RespondNoCallbackIffAbsent ==
    last.op = "respond"
        => /\ last.result \in {"Ok"} \cup RespondErrors
           /\ last.result = "NoCallback" <=> ~last.fn
           /\ last.result = "NoCallback"
                  => /\ last.host_calls = 0
                     /\ last.payload = Repr("R", last.arg)
                     /\ owner[RespOf(last.arg)] = "sender"
                     /\ ~HostHolds(respQ, last.arg)

C13_Witness ==
    /\ last.op = "respond"
    /\ ~last.fn
    /\ last.result = "NoCallback"
    /\ work.state = "executing"

\* C14 as stated: every schedule_work call on a Schedule that the lookup
\* returned reaches the host's submit function and never fails for a missing
\* capability.
C14_AbsenceOnlyAtLookup ==
    (last.op = "schedule" /\ lookup.result = "Some")
        => /\ last.host_calls = 1
           /\ last.result # "NoCallback"

\* C14 amended: the lookup in the audio class returns None exactly for a null
\* feature pointer and a Schedule otherwise; a schedule_work call on that
\* Schedule reaches the host's submit function exactly when the host's
\* feature carries one, and otherwise fails at call time with NoCallback(v),
\* v given back, without a host call.
C14_AbsenceAtLookupOrCall ==
    /\ lookup.result = "Some" => (lookup.feature /\ lookup.class = "Audio")
    /\ lookup.result = "None" => (~lookup.feature /\ lookup.class = "Audio")
    /\ last.op = "schedule"
           => /\ lookup.result = "Some"
              /\ sched_fn => (last.host_calls = 1
                                 /\ last.result # "NoCallback")
              /\ ~sched_fn => /\ last.host_calls = 0
                              /\ last.result = "NoCallback"
                              /\ last.payload = Repr("W", last.arg)
                              /\ owner[WorkOf(last.arg)] = "sender"

C14_Witness ==
    /\ lookup.result = "Some"
    /\ last.op = "schedule"
    /\ last.result = "NoCallback"
    /\ last.host_calls = 0

\* C15: every entry point reports failure through its return value: the
\* lookup returns Some or None for every threading class, schedule_work and
\* respond return Ok or an error, the callbacks return a status; no call
\* panics.
C15_FailureIsAValue ==
    /\ lookup.result \in {"pending", "Some", "None"}
    /\ last.op = "from_feature_ptr" => last.result \in {"Some", "None"}
    /\ last.op = "schedule" => last.result \in {"Ok"} \cup ScheduleErrors
    /\ last.op = "respond" => last.result \in {"Ok"} \cup RespondErrors
    /\ last.op \in {"work", "work_response", "end_run"}
           => last.status \in {LV2_WORKER_SUCCESS, LV2_WORKER_ERR_UNKNOWN,
                               LV2_WORKER_ERR_NO_SPACE}

\* C16: the executor moves only Idle -> Executing (a work callback is
\* entered) -> Idle (P::work returned); respond is called only while an
\* invocation is in progress, through the response function that invocation
\* was given, and leaves the executor Executing, so that it can be called any
\* number of times.
C16_ExecutorStateMachine ==
    [][/\ work.state \in {"idle", "executing"}
       /\ (work.state = "idle" /\ work'.state = "executing")
              => last'.op = "work_enter"
       /\ (work.state = "executing" /\ work'.state = "idle")
              => (last'.op = "work" /\ last'.hook)
       /\ last'.op = "work_enter" => work.state = "idle"
       /\ last'.op = "respond"
              => /\ work.state = "executing"
                 /\ work' = work
                 /\ last'.fn = work.response_function]_vars

C16_Witness ==
    /\ last.op = "respond"
    /\ last.arg = 2
    /\ work.state = "executing"
    /\ owner[RespOf(1)] = "host"
    /\ last.result = "Ok"

\* C17: for a plugin that overrides neither work_response nor end_run, every
\* delivery of a response with the size of ResponseData to the instance and
\* every end_run on the instance returns Success and leaves the instance as
\* it was; the delivered response is dropped exactly once.
C17_DefaultHooksAreNoOps ==
    [][(/\ ~override
        /\ last'.op \in {"work_response", "end_run"}
        /\ ~last'.null
        /\ last'.op = "work_response" => last'.size = ResponseDataSize)
          => /\ last'.hook
             /\ last'.hook_res = "Ok"
             /\ last'.status = LV2_WORKER_SUCCESS
             /\ inst' = inst
             /\ inst' = [responses |-> 0, end_cycle |-> 0]
             /\ last'.op = "work_response"
                    => /\ drops[RespOf(last'.arg)] = 0
                       /\ drops'[RespOf(last'.arg)] = 1
                       /\ owner'[RespOf(last'.arg)] = "dropped"
             /\ last'.op = "end_run" => drops' = drops]_vars

C17_Witness ==
    /\ ~override
    /\ last.op = "end_run"
    /\ ~last.null
    /\ last.status = LV2_WORKER_SUCCESS
    /\ \E t \in RespIds : owner[RespOf(t)] = "dropped" /\ drops[RespOf(t)] = 1
    /\ cyc.faults = 0

\* C18: a call of extern_work with a declared size other than the size of
\* WorkData returns ErrorUnknown, does not enter P::work, and no respond
\* reaches the host for it: the executor stays idle and the host's response
\* queue is as before; P::work is entered only with the size of WorkData.
C18_DecodeRejection ==
    [][/\ (last'.op = "work" /\ last'.size # WorkDataSize)
              => /\ last'.status = LV2_WORKER_ERR_UNKNOWN
                 /\ ~last'.hook
                 /\ work.state = "idle"
                 /\ work' = work
                 /\ reentrancy' = reentrancy
                 /\ respQ' = respQ
                 /\ ~ChannelLive'
       /\ last'.op = "work_enter" => last'.size = WorkDataSize]_vars

C18_Witness ==
    /\ last.op = "work"
    /\ last.size = WorkDataSize + 1
    /\ ~last.hook
    /\ last.status = LV2_WORKER_ERR_UNKNOWN
    /\ work.state = "idle"

\* who holds payload p: the copies in the host's queue of its kind, the
\* executor that received it, the sender a failed transfer gave it back to
HostCopies(p) ==
    LET q == IF p[1] = "W" THEN workQ ELSE respQ
    IN Cardinality({k \in 1..Len(q) : q[k].id = p[2]})

ReceiverHolds(p) ==
    IF p[1] = "W" /\ work.state = "executing"
          /\ work.data.inner = Repr("W", p[2])
    THEN 1 ELSE 0

SenderHolds(p) == IF owner[p] = "sender" THEN 1 ELSE 0

Holders(p) == HostCopies(p) + ReceiverHolds(p) + SenderHolds(p)

C20_TotalStatusMapping ==
    (last.op \in {"schedule", "respond"} /\ last.host_calls = 1)
        => LET p == <<last.kind, last.arg>>
               known == {LV2_WORKER_SUCCESS, LV2_WORKER_ERR_UNKNOWN,
                         LV2_WORKER_ERR_NO_SPACE}
           IN /\ last.status_in \notin known
                     => (last.result = "Unknown"
                            /\ last.payload = Repr(last.kind, last.arg))
              /\ last.result = "Ok" <=> last.status_in = LV2_WORKER_SUCCESS
              /\ last.result = "Ok"
                     => (HostCopies(p) = 1 /\ last.payload = NoValue)
              /\ last.result # "Ok"
                     => /\ last.payload = Repr(last.kind, last.arg)
                        /\ owner[p] = "sender"
                        /\ HostCopies(p) = 0
              /\ drops[p] = 0

C20_Witness ==
    /\ last.op = "respond"
    /\ last.host_calls = 1
    /\ last.status_in > LV2_WORKER_ERR_NO_SPACE
    /\ last.result = "Unknown"
    /\ owner[RespOf(last.arg)] = "sender"

\* C21: a call of extern_work_response or extern_end_run with a null instance
\* handle returns ErrorUnknown without invoking the hook and leaves the
\* instance as it was; extern_work_response returns before it reads the
\* body, so it makes no ResponseData value and runs no destructor: the
\* response the host delivered is never destructed.
C21_NullHandle ==
    [][(last'.op \in {"work_response", "end_run"} /\ last'.null)
          => /\ last'.status = LV2_WORKER_ERR_UNKNOWN
             /\ ~last'.hook
             /\ last'.hook_res = "none"
             /\ inst' = inst
             /\ drops' = drops
             /\ last'.op = "work_response"
                    => /\ last'.constructed = 0
                       /\ last'.destructed = 0
                       /\ last'.value = NoValue
                       /\ drops'[RespOf(last'.arg)] = 0
                       /\ owner'[RespOf(last'.arg)] = "leaked"
                       /\ ~HostHolds(respQ', last'.arg)]_vars

C21_Witness ==
    /\ last.op = "work_response"
    /\ last.null
    /\ last.size = ResponseDataSize
    /\ last.status = LV2_WORKER_ERR_UNKNOWN
    /\ owner[RespOf(last.arg)] = "leaked"
    /\ drops[RespOf(last.arg)] = 0

\* C22: whatever was sent through the response handler of an invocation
\* before, and however it ended, a respond call gives Ok on Success, NoSpace
\* on ErrorNoSpace, Unknown on every other status (NoCallback without a host
\* function); and extern_work returns the status of the result of P::work
\* alone: Success for Ok also after a respond of the invocation failed.
C22_StatelessChannel ==
    /\ last.op = "respond"
           => /\ chan.calls >= 1
              /\ chan.refused <= chan.calls
              /\ last.fn = work.response_function
              /\ last.result =
                     (IF ~last.fn THEN "NoCallback"
                      ELSE IF last.status_in = LV2_WORKER_SUCCESS THEN "Ok"
                      ELSE IF last.status_in = LV2_WORKER_ERR_NO_SPACE
                           THEN "NoSpace"
                      ELSE "Unknown")
              /\ last.host_calls = (IF last.fn THEN 1 ELSE 0)
    /\ (last.op = "work" /\ last.hook)
           => last.status =
                  (IF last.hook_res = "Ok" THEN LV2_WORKER_SUCCESS
                   ELSE IF last.hook_res = "Unknown"
                        THEN LV2_WORKER_ERR_UNKNOWN
                   ELSE LV2_WORKER_ERR_NO_SPACE)

\* the second respond of an invocation succeeded after the first was
\* refused, and P::work returned Ok
C22_Witness ==
    /\ last.op = "work"
    /\ last.hook
    /\ last.hook_res = "Ok"
    /\ last.status = LV2_WORKER_SUCCESS
    /\ chan = [calls |-> 2, refused |-> 1]
    /\ owner[RespOf(1)] = "dropped"
    /\ owner[RespOf(2)] = "host"

\* C23: no step of an executor invocation (its entry or rejection in
\* extern_work, a respond, the return of P::work) changes the plugin
\* instance; the instance changes only in a call of extern_work_response or
\* extern_end_run that reached the hook through a non-null handle, also
\* while an invocation is in progress.
C23_ExecutorLeavesInstance ==
    [][/\ last'.op \in {"work_enter", "work", "respond"} => inst' = inst
       /\ inst' # inst
              => /\ last'.op \in {"work_response", "end_run"}
                 /\ ~last'.null
                 /\ last'.hook
                 /\ override
                 /\ work' = work
                 /\ reentrancy' = reentrancy]_vars

\* the response of the first invocation was delivered to the instance while
\* the invocation was in progress, and the invocation has returned
C23_Witness ==
    /\ last.op = "work"
    /\ last.hook
    /\ last.arg = 1
    /\ chan.calls = 1
    /\ inst.responses = 1
    /\ owner[RespOf(1)] = "dropped"

====
